---- MODULE Spec2Model ----
(***************************************************************************)
(* A model of omr_processor.py: the /process-omr request handler           *)
(* (process_omr), the image retrieval it calls (download_image) and the    *)
(* detection core (detect_filled_bubbles): contour filter, stable sort by  *)
(* vertical centre, greedy row scan, fill scoring and answer selection,    *)
(* and padding of the answer list.                                         *)
(*                                                                         *)
(* The image is represented by what the core reads of it: its height and   *)
(* the list of external contours of the thresholded mask, each with its    *)
(* bounding box (x, y, w, h), its contour area and the number of white     *)
(* (255) pixels of the mask inside its bounding box.                       *)
(*                                                                         *)
(* Numbers.  cv2.contourArea returns multiples of 0.5, so areas are kept   *)
(* doubled (area2 = 2 * area).  Fill percentages are the exact ratios      *)
(* 100 * white / (w * h), kept as the pair (white, total); comparisons of  *)
(* two ratios are cross-multiplied.  Reported percentages are kept in      *)
(* tenths (30.0 is 300).                                                   *)
(***************************************************************************)
EXTENDS Integers, Sequences, FiniteSets, TLC

VARIABLES
    pc,             \* where the handler / the core stands
    data,           \* request.json: what the client sent
    num_questions,  \* process_omr: num_questions, as handed to the core
    fetch,          \* outcome of download_image(image_url)
    invoked,        \* TRUE once detect_filled_bubbles has been called
    height,         \* image.shape[0]
    contours,       \* cv2.findContours(...)[0], in discovery order
    bubbles,        \* detect_filled_bubbles: bubbles
    questions,      \* detect_filled_bubbles: questions
    i,              \* row scan: index of the attempt's first candidate (0-based)
    j,              \* row scan: index of the next candidate to try (0-based)
    current_row,    \* row scan: candidates collected by the current attempt
    last_attempt,   \* history: start, size, accepted, next of the attempt just closed
    answers,        \* detect_filled_bubbles: answers
    status          \* HTTP status of the response, 0 while none was sent

vars == <<pc, data, num_questions, fetch, invoked, height, contours, bubbles,
          questions, i, j, current_row, last_attempt, answers, status>>

----------------------------------------------------------------------------
(* Program constants *)

\* data.get('numberOfQuestions', 20)
DefaultQuestions == 20
\* tolerance = 30  # pixels
tolerance == 30
\* if len(current_row) == 4
RowSize == 4
\* if max_fill > 30
FillThreshold == 30
\* 150 < area < 2500, doubled
MinArea2 == 300
MaxArea2 == 5000

(* Bounds of the model *)

\* most contours an image of the handler specification holds
MaxContours == 8
\* largest question count a request of the handler specification asks for
MaxQuestions == 3

----------------------------------------------------------------------------
(* Sequence helpers *)

Range(s) == {s[k] : k \in 1..Len(s)}

Min2(a, b) == IF a <= b THEN a ELSE b
Max2(a, b) == IF a >= b THEN a ELSE b
Abs(a) == IF a >= 0 THEN a ELSE -a

\* Python's s[:n]: the first n items, or all but the last -n when n < 0.
PySlice(s, n) ==
    IF n >= 0 THEN SubSeq(s, 1, Min2(n, Len(s)))
              ELSE SubSeq(s, 1, Max2(Len(s) + n, 0))

----------------------------------------------------------------------------
(* Candidate extractor: lines 39-62 *)

\* aspect_ratio = w / float(h) if h > 0 else 0;  0.7 <= aspect_ratio <= 1.3.
\* Division of two small integers is correctly rounded and 0.7, 1.3 are the
\* doubles nearest 7/10 and 13/10, so the comparison is the exact one.
AspectOk(w, h) ==
    IF h > 0 THEN 7 * h <= 10 * w /\ 10 * w <= 13 * h
             ELSE FALSE

\* the area limits taken as inclusive
AreaOk_Inclusive(area2) == MinArea2 <= area2 /\ area2 <= MaxArea2

\* 150 < area < 2500
AreaOk(area2) == MinArea2 < area2 /\ area2 < MaxArea2

\* Image heights h (up to 2000) for which the double product h * 0.35 is
\* smaller than the exact integer 7h/20 (0.35 is not a double; e.g.
\* 180 * 0.35 evaluates to 62.99999999999999).
RoundsBelow35 == {180, 340, 360, 660, 680, 700, 720, 1300, 1320, 1340, 1360,
                  1380, 1400, 1420, 1440, 1460}

\* y > height * 0.35, as the double comparison decides it.
BelowHeader(y, hgt) ==
    IF hgt \in RoundsBelow35 THEN 20 * y >= 7 * hgt
                             ELSE 20 * y > 7 * hgt

\* the filter of lines 50-52
KeepContour(c, hgt) ==
    /\ AspectOk(c.w, c.h)
    /\ AreaOk(c.area2)
    /\ BelowHeader(c.y, hgt)

\* the dict appended at lines 54-62; white is what line 107 counts in the
\* mask inside the bounding box
MakeBubble(c) ==
    [x |-> c.x, y |-> c.y, w |-> c.w, h |-> c.h,
     center_x |-> c.x + (c.w \div 2),
     center_y |-> c.y + (c.h \div 2),
     area2 |-> c.area2, white |-> c.white]

RECURSIVE FilterContours(_, _)
\* the loop of lines 39-62 over the contours in discovery order
FilterContours(cs, hgt) ==
    IF cs = <<>> THEN <<>>
    ELSE LET rest == FilterContours(Tail(cs), hgt)
         IN  IF KeepContour(Head(cs), hgt)
             THEN <<MakeBubble(Head(cs))>> \o rest
             ELSE rest

----------------------------------------------------------------------------
(* Sorting: list.sort(key=...) is stable *)

\* sorted is in key order; e goes after every item whose key is <= its own
InsertByCenterY(sorted, e) ==
    LET k == Cardinality({n \in 1..Len(sorted) : sorted[n].center_y <= e.center_y})
    IN  SubSeq(sorted, 1, k) \o <<e>> \o SubSeq(sorted, k + 1, Len(sorted))

\* the sort by vertical centre left out
SortByCenterY_Skipped(s) == s

RECURSIVE SortByCenterY(_)
\* bubbles.sort(key=lambda b: b['center_y']), line 65
SortByCenterY(s) ==
    IF s = <<>> THEN <<>>
    ELSE InsertByCenterY(SortByCenterY(SubSeq(s, 1, Len(s) - 1)), s[Len(s)])

InsertByCenterX(sorted, e) ==
    LET k == Cardinality({n \in 1..Len(sorted) : sorted[n].center_x <= e.center_x})
    IN  SubSeq(sorted, 1, k) \o <<e>> \o SubSeq(sorted, k + 1, Len(sorted))

RECURSIVE SortByCenterX(_)
\* current_row.sort(key=lambda b: b['center_x']), line 88
SortByCenterX(s) ==
    IF s = <<>> THEN <<>>
    ELSE InsertByCenterX(SortByCenterX(SubSeq(s, 1, Len(s) - 1)), s[Len(s)])

----------------------------------------------------------------------------
(* Row grouper: lines 67-91 *)

\* abs(bubbles[j]['center_y'] - current_y) <= tolerance, line 79
InBand(b, current_y) == Abs(b.center_y - current_y) <= tolerance

\* if len(current_row) == 4, line 86
AcceptRow(row) == Len(row) = RowSize

\* the scan advancing by one candidate after every attempt
NextStart_ByOne(ii, jj) == ii + 1

\* i = j if j > i + 1 else i + 1, line 91
NextStart(ii, jj) == IF jj > ii + 1 THEN jj ELSE ii + 1

\* an accepted row appended without the left-to-right sort
CloseRow_Unsorted(qs, row) ==
    IF AcceptRow(row) THEN Append(qs, row) ELSE qs

\* lines 86-89: what closing an attempt leaves in questions
CloseRow(qs, row) ==
    IF AcceptRow(row) THEN Append(qs, SortByCenterX(row)) ELSE qs

----------------------------------------------------------------------------
(* Fill scorer and answer selector: lines 96-129 *)

\* fill_pct = (white_pixels / total_pixels) * 100 if total_pixels > 0 else 0,
\* kept as the exact ratio white / total (lines 107-109)
FillPct(b) ==
    IF b.w * b.h > 0 THEN [white |-> b.white, total |-> b.w * b.h]
                     ELSE [white |-> 0, total |-> 1]

\* fill_percentages of one row, lines 98-111
FillPercentages(row) == [k \in 1..Len(row) |-> FillPct(row[k])]

\* p < q and p = q on the ratios
FillLess(p, q) == p.white * q.total < q.white * p.total
FillEqual(p, q) == p.white * q.total = q.white * p.total

\* min in place of max
MaxFill_Min(fp) == CHOOSE p \in Range(fp) : \A q \in Range(fp) : ~FillLess(q, p)

\* max(fill_percentages), line 115
MaxFill(fp) == CHOOSE p \in Range(fp) : \A q \in Range(fp) : ~FillLess(p, q)

\* the threshold test taken as >=
OverThreshold_Inclusive(p) == 100 * p.white >= FillThreshold * p.total

\* max_fill > 30, line 118
OverThreshold(p) == 100 * p.white > FillThreshold * p.total

\* fill_percentages.index(max_fill) + 1: the first position holding the maximum
FirstIndex(fp, m) ==
    CHOOSE k \in 1..Len(fp) :
        /\ FillEqual(fp[k], m)
        /\ \A n \in 1..(k - 1) : ~FillEqual(fp[n], m)

\* position, lines 114-123
SelectPosition(fp) ==
    IF fp # <<>>
    THEN IF OverThreshold(MaxFill(fp)) THEN FirstIndex(fp, MaxFill(fp)) ELSE 0
    ELSE 0

\* round(p, 1) in tenths of a percent.  A ratio exactly halfway between two
\* tenths goes to either neighbour: which one depends on the last bit of
\* the double and on the rounding routine of the number's type, so both are
\* outcomes (up chooses).
RoundTenths(p, up) ==
    LET n == 1000 * p.white
        q == n \div p.total
        r == n % p.total
    IN  IF 2 * r < p.total THEN q
        ELSE IF 2 * r > p.total THEN q + 1
        ELSE IF up THEN q + 1 ELSE q

\* [round(p, 1) for p in fill_percentages], line 128: every outcome
ReportedSet(fp) ==
    {[k \in 1..Len(fp) |-> RoundTenths(fp[k], up[k])] :
        up \in [1..Len(fp) -> BOOLEAN]}

\* questions[1:num_questions]: the slice started one row late
RowsToScore_FromSecond(qs, n) == SubSeq(PySlice(qs, n), 2, Len(PySlice(qs, n)))

\* questions[:num_questions], line 96
RowsToScore(qs, n) == PySlice(qs, n)

\* the dict appended at lines 125-129
ScoredAnswer(q_num, row, reported) ==
    [question_number |-> q_num,
     position |-> SelectPosition(FillPercentages(row)),
     fill_percentages |-> reported]

----------------------------------------------------------------------------
(* Result assembler: lines 131-137 *)

\* the padding loop stopping one entry early
NeedsPadding_OneShort(ans, n) == Len(ans) < n - 1

\* while len(answers) < num_questions, line 132
NeedsPadding(ans, n) == Len(ans) < n

\* the dict appended at lines 133-137
Placeholder(ans) ==
    [question_number |-> Len(ans) + 1, position |-> 0, fill_percentages |-> <<>>]

----------------------------------------------------------------------------
(* Inputs of the handler specification *)

\* The contours one photographed sheet can show, in discovery order.  Image
\* height 1000; 40 x 40 bubbles in two printed rows (tops at 400 and 500),
\* a header mark above the answer section, and two stray marks beside row 1
\* (the lower one within 30 of row 1's lower members only).
SheetHeight == 1000

Contour(x, y, w, h, area2, white) ==
    [x |-> x, y |-> y, w |-> w, h |-> h, area2 |-> area2, white |-> white]

Sheet ==
    << Contour(100, 100, 40, 40, 2200, 900),    \* header mark
       Contour(100, 400, 40, 40, 2200, 200),
       Contour(200, 402, 40, 40, 2200, 900),
       Contour(300, 398, 40, 40, 2200, 210),
       Contour(400, 400, 40, 40, 2200, 220),
       Contour(500, 425, 40, 40, 2200, 230),    \* stray mark beside row 1
       Contour(600, 429, 40, 40, 2200, 240),    \* stray mark, a little lower
       Contour(100, 500, 40, 40, 2200, 250),
       Contour(200, 500, 40, 40, 2200, 480),    \* exactly 30 %
       Contour(300, 500, 40, 40, 2200, 300),
       Contour(400, 500, 40, 40, 2200, 200) >>

\* the items of p at the indices in S, in p's order
Pick(p, S) ==
    LET at(k) == CHOOSE n \in S : Cardinality({m \in S : m < n}) = k - 1
    IN  [k \in 1..Cardinality(S) |-> p[at(k)]]

\* every image showing at most max of the sheet's contours
SubSheets(p, max) ==
    {Pick(p, S) : S \in {T \in SUBSET (1..Len(p)) : Cardinality(T) <= max}}

\* request.json: imageUrl given or not; numberOfQuestions absent, or an integer
Requests ==
    [imageUrl : BOOLEAN, has_count : {TRUE}, numberOfQuestions : (-1)..MaxQuestions]
    \cup [imageUrl : BOOLEAN, has_count : {FALSE}, numberOfQuestions : {0}]

NoAttempt == [start |-> -1, size |-> 0, accepted |-> FALSE, next |-> 0]

----------------------------------------------------------------------------
(* process_omr: lines 147-195, and the core it calls *)

Init ==
    /\ pc = "request"
    /\ data \in Requests
    /\ num_questions = 0
    /\ fetch = "pending"
    /\ invoked = FALSE
    /\ height = SheetHeight
    /\ contours \in SubSheets(Sheet, MaxContours)
    /\ bubbles = <<>>
    /\ questions = <<>>
    /\ i = 0
    /\ j = 0
    /\ current_row = <<>>
    /\ last_attempt = NoAttempt
    /\ answers = <<>>
    /\ status = 0

\* num_questions = data.get('numberOfQuestions', 20), line 153
RequestedCount(d) ==
    IF d.has_count THEN d.numberOfQuestions ELSE DefaultQuestions

\* lines 151-159 with no image location: answered 400
reject_missing_url ==
    /\ pc = "request"
    /\ ~data.imageUrl
    /\ num_questions' = RequestedCount(data)
    /\ status' = 400
    /\ pc' = "done"
    /\ UNCHANGED <<data, fetch, invoked, height, contours, bubbles, questions,
                   i, j, current_row, last_attempt, answers>>

\* lines 151-162 with an image location
accept_request ==
    /\ pc = "request"
    /\ data.imageUrl
    /\ num_questions' = RequestedCount(data)
    /\ pc' = "download"
    /\ UNCHANGED <<data, fetch, invoked, height, contours, bubbles, questions,
                   i, j, current_row, last_attempt, answers, status>>

\* download_image raises (requests.get fails: no route, timeout, ...): the
\* handler's except clause answers 500, lines 190-195
download_raises ==
    /\ pc = "download"
    /\ fetch' = "raised"
    /\ status' = 500
    /\ pc' = "done"
    /\ UNCHANGED <<data, num_questions, invoked, height, contours, bubbles,
                   questions, i, j, current_row, last_attempt, answers>>

\* download_image returns None (cv2.imdecode cannot decode the bytes):
\* answered 400, lines 167-171
download_undecodable ==
    /\ pc = "download"
    /\ fetch' = "none"
    /\ status' = 400
    /\ pc' = "done"
    /\ UNCHANGED <<data, num_questions, invoked, height, contours, bubbles,
                   questions, i, j, current_row, last_attempt, answers>>

\* download_image returns the image; detect_filled_bubbles is called, line 176
download_image ==
    /\ pc = "download"
    /\ fetch' = "image"
    /\ invoked' = TRUE
    /\ pc' = "detect"
    /\ UNCHANGED <<data, num_questions, height, contours, bubbles, questions,
                   i, j, current_row, last_attempt, answers, status>>

\* lines 36-62: the candidate extractor
extract_bubbles ==
    /\ pc = "detect"
    /\ bubbles' = FilterContours(contours, height)
    /\ pc' = "sort"
    /\ UNCHANGED <<data, num_questions, fetch, invoked, height, contours,
                   questions, i, j, current_row, last_attempt, answers, status>>

\* lines 65-71: sort by vertical centre, start the scan
sort_bubbles ==
    /\ pc = "sort"
    /\ bubbles' = SortByCenterY(bubbles)
    /\ questions' = <<>>
    /\ i' = 0
    /\ pc' = "scan"
    /\ UNCHANGED <<data, num_questions, fetch, invoked, height, contours,
                   j, current_row, last_attempt, answers, status>>

\* lines 72-77: an attempt starts at bubbles[i]
row_start ==
    /\ pc = "scan"
    /\ i < Len(bubbles)
    /\ current_row' = <<bubbles[i + 1]>>
    /\ j' = i + 1
    /\ pc' = "row"
    /\ UNCHANGED <<data, num_questions, fetch, invoked, height, contours,
                   bubbles, questions, i, last_attempt, answers, status>>

\* lines 78-81: bubbles[j] lies in the band of the attempt's first candidate
row_extend ==
    /\ pc = "row"
    /\ j < Len(bubbles)
    /\ InBand(bubbles[j + 1], current_row[1].center_y)
    /\ current_row' = Append(current_row, bubbles[j + 1])
    /\ j' = j + 1
    /\ UNCHANGED <<pc, data, num_questions, fetch, invoked, height, contours,
                   bubbles, questions, i, last_attempt, answers, status>>

\* lines 82-91: the inner loop ends; the attempt is accepted or dropped and
\* the scan moves on
row_close ==
    /\ pc = "row"
    /\ \/ j >= Len(bubbles)
       \/ /\ j < Len(bubbles)
          /\ ~InBand(bubbles[j + 1], current_row[1].center_y)
    /\ questions' = CloseRow(questions, current_row)
    /\ i' = NextStart(i, j)
    /\ last_attempt' = [start |-> i, size |-> Len(current_row),
                        accepted |-> questions' # questions, next |-> i']
    /\ pc' = "scan"
    /\ UNCHANGED <<data, num_questions, fetch, invoked, height, contours,
                   bubbles, j, current_row, answers, status>>

\* line 72 false: the scan is over
scan_done ==
    /\ pc = "scan"
    /\ i >= Len(bubbles)
    /\ pc' = "score"
    /\ UNCHANGED <<data, num_questions, fetch, invoked, height, contours,
                   bubbles, questions, i, j, current_row, last_attempt,
                   answers, status>>

\* lines 96-129: one iteration of the scoring loop
score_row ==
    /\ pc = "score"
    /\ Len(answers) < Len(RowsToScore(questions, num_questions))
    /\ LET q_num == Len(answers) + 1
           row == RowsToScore(questions, num_questions)[q_num]
       IN  \E reported \in ReportedSet(FillPercentages(row)) :
               answers' = Append(answers, ScoredAnswer(q_num, row, reported))
    /\ UNCHANGED <<pc, data, num_questions, fetch, invoked, height, contours,
                   bubbles, questions, i, j, current_row, last_attempt, status>>

\* the scoring loop is exhausted
score_done ==
    /\ pc = "score"
    /\ Len(answers) >= Len(RowsToScore(questions, num_questions))
    /\ pc' = "pad"
    /\ UNCHANGED <<data, num_questions, fetch, invoked, height, contours,
                   bubbles, questions, i, j, current_row, last_attempt,
                   answers, status>>

\* lines 132-137: one iteration of the padding loop
pad_answer ==
    /\ pc = "pad"
    /\ NeedsPadding(answers, num_questions)
    /\ answers' = Append(answers, Placeholder(answers))
    /\ UNCHANGED <<pc, data, num_questions, fetch, invoked, height, contours,
                   bubbles, questions, i, j, current_row, last_attempt, status>>

\* lines 139, 176-188: the core returns and the handler answers 200
return_answers ==
    /\ pc = "pad"
    /\ ~NeedsPadding(answers, num_questions)
    /\ status' = 200
    /\ pc' = "done"
    /\ UNCHANGED <<data, num_questions, fetch, invoked, height, contours,
                   bubbles, questions, i, j, current_row, last_attempt, answers>>

Next ==
    \/ reject_missing_url
    \/ accept_request
    \/ download_raises
    \/ download_undecodable
    \/ download_image
    \/ extract_bubbles
    \/ sort_bubbles
    \/ row_start
    \/ row_extend
    \/ row_close
    \/ scan_done
    \/ score_row
    \/ score_done
    \/ pad_answer
    \/ return_answers

Spec == Init /\ [][Next]_vars

----------------------------------------------------------------------------
(* The candidate extractor on one contour, over boundary geometries *)

FilterHeights == {100, 180, 200}
FilterTops == {0, 20, 30, 35, 36, 62, 63, 64, 70, 71, 120}
FilterBoxHeights == {0, 20, 40, 60}
FilterArea2 == {0, 299, 300, 301, 1000, 4999, 5000, 5001}

\* widths at and around the aspect-ratio limits for a box of height h
FilterWidths(h) ==
    IF h = 0 THEN {0, 20}
    ELSE {(7 * h) \div 10 - 1, (7 * h) \div 10, h, (13 * h) \div 10,
          (13 * h) \div 10 + 1}

\* contours an image of height hgt can hold: the box lies inside the image
\* and the contour's area does not exceed what its box encloses
FilterInputs(hgt) ==
    {Contour(50, y, w, h, a, (w * h) \div 4) :
        <<y, h, w, a>> \in
            {t \in FilterTops \X FilterBoxHeights \X (0..79) \X FilterArea2 :
                /\ t[3] \in FilterWidths(t[2])
                /\ t[1] + t[2] <= hgt
                /\ t[4] <= 2 * Max2(t[3] - 1, 0) * Max2(t[2] - 1, 0)}}

InitFilter ==
    /\ pc = "detect"
    /\ data = [imageUrl |-> TRUE, has_count |-> TRUE, numberOfQuestions |-> 1]
    /\ num_questions = 1
    /\ fetch = "image"
    /\ invoked = TRUE
    /\ height \in FilterHeights
    /\ \E c \in FilterInputs(height) : contours = <<c>>
    /\ bubbles = <<>>
    /\ questions = <<>>
    /\ i = 0
    /\ j = 0
    /\ current_row = <<>>
    /\ last_attempt = NoAttempt
    /\ answers = <<>>
    /\ status = 0

NextFilter == extract_bubbles

SpecFilter == InitFilter /\ [][NextFilter]_vars

----------------------------------------------------------------------------
(* The scorer on one row, over fill levels around the threshold *)

\* (w, h, white) of a bubble: 10 %, 30 % (two ways), 30.04 %, 30.05 %,
\* 45 % (two ways), 45.04 %
ScoreLevels ==
    { <<50, 50, 250>>, <<50, 50, 750>>, <<50, 50, 751>>, <<50, 50, 1125>>,
      <<50, 50, 1126>>, <<40, 50, 600>>, <<40, 50, 601>>, <<40, 50, 900>> }

\* an accepted row: four bubbles left to right with the given fill levels
ScoreRow(f) ==
    [k \in 1..RowSize |->
        MakeBubble(Contour(100 * k, 400, f[k][1], f[k][2], 2200, f[k][3]))]

InitScore ==
    /\ pc = "score"
    /\ num_questions \in 1..2
    /\ data = [imageUrl |-> TRUE, has_count |-> TRUE,
               numberOfQuestions |-> num_questions]
    /\ fetch = "image"
    /\ invoked = TRUE
    /\ height = SheetHeight
    /\ \E f \in [1..RowSize -> ScoreLevels] :
          /\ bubbles = ScoreRow(f)
          /\ questions = <<ScoreRow(f)>>
          /\ contours = [k \in 1..RowSize |->
                            Contour(100 * k, 400, f[k][1], f[k][2], 2200, f[k][3])]
    /\ i = RowSize
    /\ j = RowSize
    /\ current_row = bubbles
    /\ last_attempt = [start |-> 0, size |-> RowSize, accepted |-> TRUE,
                       next |-> RowSize]
    /\ answers = <<>>
    /\ status = 0

NextScore ==
    \/ score_row
    \/ score_done
    \/ pad_answer
    \/ return_answers

SpecScore == InitScore /\ [][NextScore]_vars

----------------------------------------------------------------------------
(* The row grouper on candidates arriving in every order *)

\* Eight candidates: a printed row (vertical centres 418, 420, 420, 422), a
\* stray mark (450) in reach of that row's lower members only, and three
\* marks lower down (475, 480, 480), two of which have the same centre and
\* different boxes.
OrderSheet ==
    << Contour(100, 398, 40, 40, 2200, 400),
       Contour(200, 400, 40, 40, 2200, 400),
       Contour(300, 400, 40, 40, 2200, 400),
       Contour(400, 402, 40, 40, 2200, 400),
       Contour(500, 430, 40, 40, 2200, 400),
       Contour(100, 455, 40, 40, 2200, 400),
       Contour(200, 460, 40, 40, 2200, 400),
       Contour(198, 458, 44, 44, 2200, 400) >>

InitOrder ==
    /\ pc = "find"
    /\ data = [imageUrl |-> TRUE, has_count |-> TRUE, numberOfQuestions |-> 1]
    /\ num_questions = 1
    /\ fetch = "image"
    /\ invoked = TRUE
    /\ height = SheetHeight
    /\ contours = <<>>
    /\ bubbles = <<>>
    /\ questions = <<>>
    /\ i = 0
    /\ j = 0
    /\ current_row = <<>>
    /\ last_attempt = NoAttempt
    /\ answers = <<>>
    /\ status = 0

\* cv2.findContours, line 33, reports one more contour of the image; the
\* order in which it reports them is not fixed by the image's layout
find_contour ==
    /\ pc = "find"
    /\ \E c \in Range(OrderSheet) \ Range(contours) :
          contours' = Append(contours, c)
    /\ UNCHANGED <<pc, data, num_questions, fetch, invoked, height, bubbles,
                   questions, i, j, current_row, last_attempt, answers, status>>

\* cv2.findContours has reported every contour of the image
contours_found ==
    /\ pc = "find"
    /\ pc' = "detect"
    /\ UNCHANGED <<data, num_questions, fetch, invoked, height, contours,
                   bubbles, questions, i, j, current_row, last_attempt,
                   answers, status>>

NextOrder ==
    \/ find_contour
    \/ contours_found
    \/ extract_bubbles
    \/ sort_bubbles
    \/ row_start
    \/ row_extend
    \/ row_close
    \/ scan_done

SpecOrder == InitOrder /\ [][NextOrder]_vars

----------------------------------------------------------------------------
(* The row grouper as one function of the candidate list: lines 65-91 *)

RECURSIVE BandEnd(_, _, _)
\* the inner loop, lines 77-83: where j stops
BandEnd(bs, current_y, jj) ==
    IF jj < Len(bs) /\ InBand(bs[jj + 1], current_y)
    THEN BandEnd(bs, current_y, jj + 1)
    ELSE jj

RECURSIVE GroupFrom(_, _, _)
\* the outer loop, lines 72-91, from index ii with qs accepted so far
GroupFrom(bs, ii, qs) ==
    IF ii >= Len(bs) THEN qs
    ELSE LET jj == BandEnd(bs, bs[ii + 1].center_y, ii + 1)
         IN  GroupFrom(bs, NextStart(ii, jj), CloseRow(qs, SubSeq(bs, ii + 1, jj)))

\* lines 65-91
GroupRows(bs) == GroupFrom(SortByCenterY(bs), 0, <<>>)

----------------------------------------------------------------------------
(* Properties *)

Returned == pc = "done" /\ status = 200

\* entry e is numbered n
Numbered(ans) == \A q \in 1..Len(ans) : ans[q].question_number = q

\* t tenths is a nearest tenth of the fill percentage of bubble b
NearestTenth(t, b) ==
    LET d == 1000 * b.white - t * b.w * b.h
    IN  2 * Abs(d) <= b.w * b.h

\* C1: for a positive requested count N the core returns exactly N answers,
\* numbered 1, 2, ..., N in order, whether it accepted fewer rows than N,
\* exactly N, or more.
C1_LengthAndNumbering ==
    (Returned /\ num_questions > 0) =>
        /\ Len(answers) = num_questions
        /\ Numbered(answers)

\* C1 witness: the core returned with more accepted rows than requested
C1_Witness ==
    /\ Returned
    /\ num_questions > 0
    /\ Len(questions) > num_questions

\* C2: with k = min(accepted rows, N), answer q <= k reports 4 fill scores,
\* each the percentage of the bubble at that position of the q-th accepted
\* row (to the nearest tenth), and answers k+1..N are placeholders with
\* position 0 and no fill scores; with no contour at all every answer is a
\* placeholder.
C2_ScoredThenPlaceholders ==
    (Returned /\ num_questions > 0) =>
        LET k == Min2(Len(questions), num_questions)
        IN  /\ Len(answers) >= num_questions
            /\ \A q \in 1..k :
                  /\ Len(answers[q].fill_percentages) = 4
                  /\ Len(questions[q]) = 4
                  /\ \A n \in 1..4 :
                        NearestTenth(answers[q].fill_percentages[n], questions[q][n])
            /\ \A q \in (k + 1)..num_questions :
                  /\ answers[q].position = 0
                  /\ answers[q].fill_percentages = <<>>
            /\ contours = <<>> =>
                  \A q \in 1..num_questions : answers[q].fill_percentages = <<>>

\* C2 witness: fewer rows accepted than requested, at least one
C2_Witness ==
    /\ Returned
    /\ Len(questions) >= 1
    /\ Len(questions) < num_questions
    /\ answers[Len(questions)].fill_percentages # <<>>

\* the ratio of bubble b is at most 30 % / exceeds that of bubble c
AtMostThreshold(b) == 100 * b.white <= 30 * b.w * b.h
FillerThan(b, c) == b.white * c.w * c.h > c.white * b.w * b.h

C4_DefaultsToTwenty ==
    (Returned /\ (~data.has_count \/ data.numberOfQuestions <= 0)) =>
        /\ Len(answers) = DefaultQuestions
        /\ Numbered(answers)

\* the sets of candidates of the rows, in row order
RowMembers(qs) == [k \in 1..Len(qs) |-> Range(qs[k])]

\* the contours of cs in OrderSheet's order: one fixed ordering of the input
Reordered(cs) ==
    Pick(OrderSheet, {n \in 1..Len(OrderSheet) : OrderSheet[n] \in Range(cs)})

\* C5: the accepted rows (their members) and their numbering are those the
\* grouper yields for the same candidates given in another order, whatever
\* order they arrived in, equal vertical centres included.
C5_OrderIndependent ==
    pc = "score" =>
        RowMembers(questions)
            = RowMembers(GroupRows(FilterContours(Reordered(contours), height)))

\* C5 witness: two rows accepted from candidates that arrived with two equal
\* vertical centres in the reverse of their left-to-right order
C5_Witness ==
    /\ pc = "score"
    /\ Len(questions) = 2
    /\ contours # Reordered(contours)
    /\ \E m, n \in 1..Len(contours) :
          /\ m < n
          /\ contours[m].y = contours[n].y
          /\ contours[m].x > contours[n].x

\* the predicate as the claim words it: centre below 35 % of the height
C6_ClaimedKeep(c, hgt) ==
    /\ c.h > 0
    /\ 7 * c.h <= 10 * c.w
    /\ 10 * c.w <= 13 * c.h
    /\ 300 < c.area2
    /\ c.area2 < 5000
    /\ 20 * (c.y + (c.h \div 2)) > 7 * hgt

\* the predicate with the top edge of the box in place of the centre, and
\* the comparison with height * 0.35 as double arithmetic decides it
C6_AmendedKeep(c, hgt) ==
    /\ c.h > 0
    /\ 7 * c.h <= 10 * c.w
    /\ 10 * c.w <= 13 * c.h
    /\ 300 < c.area2
    /\ c.area2 < 5000
    /\ \/ 20 * c.y > 7 * hgt
       \/ 20 * c.y = 7 * hgt /\ hgt \in RoundsBelow35

C7_ClientErrors ==
    pc = "done" =>
        /\ (~data.imageUrl \/ fetch \in {"raised", "none"}) =>
              ~invoked /\ status = 400
        /\ status = 500 => data.imageUrl /\ fetch \notin {"raised", "none"}

\* C8: every accepted row holds exactly 4 candidates whose vertical centres
\* differ pairwise by at most 30 and which are in non-decreasing order of
\* horizontal centre; rows are in top-to-bottom order of their first member;
\* no candidate is in two rows.
C8_RowInvariant ==
    /\ \A k \in 1..Len(questions) :
          /\ Len(questions[k]) = 4
          /\ \A m, n \in 1..Len(questions[k]) :
                /\ Abs(questions[k][m].center_y - questions[k][n].center_y) <= 30
                /\ m < n => questions[k][m].center_x <= questions[k][n].center_x
    /\ \A k \in 1..(Len(questions) - 1) :
          questions[k][1].center_y <= questions[k + 1][1].center_y
    /\ \A k, l \in 1..Len(questions) :
          k # l => Range(questions[k]) \cap Range(questions[l]) = {}

\* C8 witness: the scan has just accepted its second row
C8_Witness ==
    /\ pc = "scan"
    /\ Len(questions) = 2
    /\ last_attempt.accepted

\* C9 as claimed: after an accepted row the scan resumes at the first
\* candidate not absorbed; after a failed attempt it advances by one.
C9_AdvanceAsClaimed ==
    last_attempt.start >= 0 =>
        IF last_attempt.accepted
        THEN last_attempt.next = last_attempt.start + last_attempt.size
        ELSE last_attempt.next = last_attempt.start + 1

\* C9 amended: after every attempt, accepted or failed, the scan resumes at
\* the first candidate the attempt did not collect; it advances by exactly
\* one only when the attempt collected its first candidate alone.
C9_AdvanceAmended ==
    last_attempt.start >= 0 =>
        /\ last_attempt.next = last_attempt.start + last_attempt.size
        /\ last_attempt.size >= 1
        /\ pc = "scan" => i = last_attempt.next

\* C9 witness: a failed attempt that had collected three candidates
C9_Witness ==
    /\ pc = "scan"
    /\ last_attempt.start >= 0
    /\ ~last_attempt.accepted
    /\ last_attempt.size = 3

\* C10 as claimed: a nonzero position has a reported percentage above 30.0
\* and no position left of it reports as much or more.
C10_ReportAsClaimed ==
    \A q \in 1..Len(answers) :
        LET rep == answers[q].fill_percentages
            pos == answers[q].position
        IN  (Len(rep) = 4 /\ pos # 0) =>
                /\ rep[pos] > 300
                /\ \A n \in 1..(pos - 1) : rep[n] < rep[pos]

\* C10 amended: a nonzero position has a reported percentage of at least
\* 30.0 and no position left of it reports more.
C10_ReportAmended ==
    \A q \in 1..Len(answers) :
        LET rep == answers[q].fill_percentages
            pos == answers[q].position
        IN  (Len(rep) = 4 /\ pos # 0) =>
                /\ pos \in 1..4
                /\ rep[pos] >= 300
                /\ \A n \in 1..(pos - 1) : rep[n] <= rep[pos]

\* C10 witness: position 2 selected at 30.04 %, reported as 30.0
C10_Witness ==
    /\ Len(answers) >= 1
    /\ Len(answers[1].fill_percentages) = 4
    /\ answers[1].position = 2
    /\ answers[1].fill_percentages[2] = 300

====
